---------------------------- MODULE Spec2Model ----------------------------
(***************************************************************************)
(* Virtual EPC region manager (arch/x86/kernel/cpu/sgx/virt.c).            *)
(*                                                                         *)
(* The model follows the C code statement by statement.  A thread is an    *)
(* execution context that runs one file/vm operation at a time; th[t].pc   *)
(* is its position in that operation.  Everything the code reaches but     *)
(* does not define (the physical page source, EREMOVE/EDBGRD/EDBGWR, the   *)
(* xarray, vmf_insert_pfn) is an outcome chosen by the environment.        *)
(***************************************************************************)
EXTENDS Integers, Sequences, FiniteSets, TLC

\* ------------------------------------------------------------- bounds
NumRegions   == 2
NumPages     == 3
NumThreads   == 2
NumMM        == 2
NumVmas      == 2
MaxPgoff     == 1
WordsPerPage == 2
MaxLen       == 10

\* ---------------------------------------------------- program constants
WORD             == 8
EIO              == -5
ENOMEM           == -12
EFAULT           == -14
EBUSY            == -16
EINVAL           == -22
VM_FAULT_SIGBUS  == 2
VM_FAULT_NOPAGE  == 256
VM_FAULT_RETRY   == 1024

NULL == 0

Regions == 1..NumRegions
Pages   == 1..NumPages
Threads == 1..NumThreads
MMs     == 1..NumMM
Vmas    == 1..NumVmas

PAGE_SIZE == WordsPerPage * WORD
PFN_DOWN(x) == x \div PAGE_SIZE

\* Every mapping is VmaPages pages long and starts at VM_START.
VmaPages == 2
VM_START == PAGE_SIZE
VmaBytes == VmaPages * PAGE_SIZE
Indices  == 0..(MaxPgoff + VmaPages - 1)

VARIABLES
    epc_state,              \* region -> "none" | "open" | "releasing" | "freed"
    epc_mm,                 \* region -> epc->mm (0 before open)
    page_array,             \* region -> [index -> page or NULL]  (epc->page_array)
    lock,                   \* region -> thread holding epc->lock for writing, or 0
    virt_epc_lock,          \* thread holding the global mutex, or 0
    virt_epc_zombie_pages,  \* the global list, head first
    free_pages,             \* pages the physical page source can hand out
    secs_of,                \* page -> the SECS page it is a child of, or 0 (EPCM)
    mem,                    \* page -> word number -> the 8 bytes of that word
    mm_count,               \* mm -> references taken by mmgrab and not dropped
    vmas,                   \* vma slot -> vm_area_struct
    th,                     \* thread -> its locals and position
    installed,              \* region -> index -> pages vmf_insert_pfn installed
    rel_start,              \* region -> pages in its table when release began
    rel_freed,              \* region -> pages freed by its release
    rel_zombie,             \* region -> pages its release spliced onto the registry
    rel_taken               \* region -> registry entries its release unlinked

vars == <<epc_state, epc_mm, page_array, lock, virt_epc_lock,
          virt_epc_zombie_pages, free_pages, secs_of, mem, mm_count, vmas, th,
          installed, rel_start, rel_freed, rel_zombie, rel_taken>>

memv  == <<mem>>
hwv   == <<free_pages, secs_of>>
histv == <<installed, rel_start, rel_freed, rel_zombie, rel_taken>>
relv  == <<rel_start, rel_freed, rel_zombie, rel_taken>>
zombv == <<virt_epc_lock, virt_epc_zombie_pages>>
epcv  == <<epc_state, epc_mm, page_array, lock>>

ZeroWord == <<0, 0, 0, 0, 0, 0, 0, 0>>
ZeroMem  == [p \in Pages |-> [w \in 0..(WordsPerPage - 1) |-> ZeroWord]]

NoVma == [state |-> "none", vm_mm |-> 0, vm_flags |-> {}, vm_pgoff |-> 0,
          file |-> 0, vm_ops |-> FALSE, vm_private_data |-> 0]

Idle == [op |-> "idle", pc |-> "idle", epc |-> 0, vma |-> 0, addr |-> 0,
         index |-> 0, epc_page |-> NULL, ret |-> 0, flags |-> {},
         mmap_locked |-> FALSE, newvma |-> NoVma,
         start |-> 0, len |-> 0, write |-> FALSE, buf |-> <<>>, i |-> 0,
         cnt |-> 0, cursor |-> 0, secs_pages |-> <<>>,
         hit |-> FALSE, err |-> 0, insert_res |-> 0, sig |-> FALSE,
         miss |-> FALSE, insn_fail |-> FALSE, fail_i |-> -1]

Init ==
    /\ epc_state = [r \in Regions |-> "none"]
    /\ epc_mm = [r \in Regions |-> 0]
    /\ page_array = [r \in Regions |-> [i \in Indices |-> NULL]]
    /\ lock = [r \in Regions |-> 0]
    /\ virt_epc_lock = 0
    /\ virt_epc_zombie_pages = <<>>
    /\ free_pages = Pages
    /\ secs_of = [p \in Pages |-> 0]
    /\ mem = ZeroMem
    /\ mm_count = [m \in MMs |-> 0]
    /\ vmas = [v \in Vmas |-> NoVma]
    /\ th = [t \in Threads |-> Idle]
    /\ installed = [r \in Regions |-> [i \in Indices |-> {}]]
    /\ rel_start = [r \in Regions |-> {}]
    /\ rel_freed = [r \in Regions |-> {}]
    /\ rel_zombie = [r \in Regions |-> {}]
    /\ rel_taken = [r \in Regions |-> {}]

\* ------------------------------------------------------------ helpers
sgx_virt_epc_calc_index(vma, addr) == vma.vm_pgoff + PFN_DOWN(addr - VM_START)

\* Threads currently inside an operation on region r / through mapping v.
Using(r) == {t \in Threads : th[t].op # "idle" /\ th[t].epc = r}
UsingVma(v) == {t \in Threads : th[t].op # "idle" /\ th[t].vma = v}
MappedTo(r) == {v \in Vmas : vmas[v].state # "none" /\ vmas[v].file = r}

\* ------------------------------------------------------- open (250-266)
\* kzalloc may fail (-ENOMEM, nothing changes); otherwise the region is bound
\* to current->mm.  Regions are numbered in the order they are opened.
sgx_virt_epc_open(r, mm, ok) ==
    /\ epc_state[r] = "none"
    /\ \A q \in Regions : q < r => epc_state[q] # "none"
    /\ IF ok
       THEN /\ mm_count' = [mm_count EXCEPT ![mm] = @ + 1]
            /\ epc_mm' = [epc_mm EXCEPT ![r] = mm]
            /\ epc_state' = [epc_state EXCEPT ![r] = "open"]
       ELSE UNCHANGED <<mm_count, epc_mm, epc_state>>
    /\ UNCHANGED <<page_array, lock, zombv, hwv, memv, vmas, th, histv>>

\* ------------------------------------------------------- mmap (155-170)
\* The check without the owner test of line 162.
MmapAcceptsAnyMm(vma, r) == "VM_SHARED" \in vma.vm_flags

MmapAccepts(vma, r) ==
    /\ "VM_SHARED" \in vma.vm_flags
    /\ vma.vm_mm = epc_mm[r]

\* The vma as sgx_virt_epc_mmap leaves it, and what it returns.
MmapVma(vma, r) ==
    IF MmapAccepts(vma, r)
    THEN [vma EXCEPT !.vm_ops = TRUE,
                     !.vm_flags = @ \cup {"VM_PFNMAP", "VM_IO", "VM_DONTDUMP"},
                     !.vm_private_data = r]
    ELSE vma
MmapRet(vma, r) == IF MmapAccepts(vma, r) THEN 0 ELSE EINVAL

\* The host built a vma for a caller in address space mm and hands it over;
\* it keeps the mapping when mmap returns 0 and discards it otherwise.
sgx_virt_epc_mmap(t, v, r, mm, shared, pgoff) ==
    /\ th[t].op = "idle"
    /\ epc_state[r] = "open"
    /\ vmas[v].state = "none"
    /\ \A u \in Vmas : u < v => vmas[u].state # "none"
    /\ LET vma == [NoVma EXCEPT !.state = "new", !.vm_mm = mm, !.vm_pgoff = pgoff,
                                 !.file = r,
                                 !.vm_flags = IF shared THEN {"VM_SHARED"} ELSE {}]
           ret == MmapRet(vma, r)
       IN /\ vmas' = IF ret = 0
                     THEN [vmas EXCEPT ![v] = [MmapVma(vma, r) EXCEPT !.state = "bound"]]
                     ELSE vmas
          /\ th' = [th EXCEPT ![t] = [Idle EXCEPT !.op = "mmap", !.pc = "ret",
                        !.epc = r, !.newvma = MmapVma(vma, r), !.ret = ret]]
    /\ UNCHANGED <<epcv, zombv, hwv, memv, mm_count, histv>>

\* The host drops a mapping.
Munmap(v) ==
    /\ vmas[v].state # "none"
    /\ UsingVma(v) = {}
    /\ vmas' = [vmas EXCEPT ![v] = NoVma]
    /\ UNCHANGED <<epcv, zombv, hwv, memv, mm_count, th, histv>>

\* An operation returns to its caller.  Once release has returned, the
\* bookkeeping kept about the region it freed is dropped.
Return(t) ==
    /\ th[t].pc = "ret"
    /\ th' = [th EXCEPT ![t] = Idle]
    /\ IF th[t].op = "release"
       THEN /\ installed' = [installed EXCEPT ![th[t].epc] = [i \in Indices |-> {}]]
            /\ rel_start' = [rel_start EXCEPT ![th[t].epc] = {}]
            /\ rel_freed' = [rel_freed EXCEPT ![th[t].epc] = {}]
            /\ rel_zombie' = [rel_zombie EXCEPT ![th[t].epc] = {}]
            /\ rel_taken' = [rel_taken EXCEPT ![th[t].epc] = {}]
       ELSE UNCHANGED histv
    /\ UNCHANGED <<epcv, zombv, hwv, memv, mm_count, vmas>>

\* ------------------------------------------------------- fault (32-89)
\* The host delivers a fault at addr inside a bound mapping, mmap_lock held.
FaultCall(t, v, addr) ==
    /\ th[t].op = "idle"
    /\ vmas[v].state = "bound"
    /\ th' = [th EXCEPT ![t] = [Idle EXCEPT !.op = "fault", !.pc = "F_lock",
                 !.vma = v, !.epc = vmas[v].vm_private_data, !.addr = addr,
                 !.mmap_locked = TRUE]]
    /\ UNCHANGED <<epcv, zombv, hwv, memv, mm_count, vmas, histv>>

\* The lookup of lines 41-43 left out: every fault allocates.
FaultResolvedNever(entry) == FALSE

\* What __sgx_virt_epc_fault does with the entry xa_load returned (41-43).
FaultResolved(entry) == entry # NULL

\* The fault entered without waiting for epc->lock (line 76).
F_lockNoWait(t) ==
    /\ th[t].pc = "F_lock"
    /\ lock' = [lock EXCEPT ![th[t].epc] = t]
    /\ LET index == sgx_virt_epc_calc_index(vmas[th[t].vma], th[t].addr)
           entry == page_array[th[t].epc][index]
       IN th' = [th EXCEPT ![t] =
                   IF entry # NULL
                   THEN [@ EXCEPT !.index = index, !.hit = TRUE, !.ret = 0,
                                  !.pc = "F_unlock"]
                   ELSE [@ EXCEPT !.index = index, !.pc = "F_alloc"]]
    /\ UNCHANGED <<epc_state, epc_mm, page_array, zombv, hwv, memv, mm_count, vmas, histv>>

\* line 76 and lines 39-43: down_write(&epc->lock), then the lookup
F_lock(t) ==
    /\ th[t].pc = "F_lock"
    /\ lock[th[t].epc] = 0
    /\ lock' = [lock EXCEPT ![th[t].epc] = t]
    /\ LET index == sgx_virt_epc_calc_index(vmas[th[t].vma], th[t].addr)
           entry == page_array[th[t].epc][index]
       IN th' = [th EXCEPT ![t] =
                   IF FaultResolved(entry)
                   THEN [@ EXCEPT !.index = index, !.hit = TRUE, !.ret = 0,
                                  !.pc = "F_unlock"]
                   ELSE [@ EXCEPT !.index = index, !.pc = "F_alloc"]]
    /\ UNCHANGED <<epc_state, epc_mm, page_array, zombv, hwv, memv, mm_count, vmas, histv>>

\* lines 45-47: sgx_alloc_epc_page(&epc, false) gives a free page or an error
F_alloc(t, p, err) ==
    /\ th[t].pc = "F_alloc"
    /\ IF err = 0
       THEN /\ p \in free_pages
            /\ free_pages' = free_pages \ {p}
            /\ th' = [th EXCEPT ![t] = [@ EXCEPT !.epc_page = p, !.pc = "F_store"]]
       ELSE /\ UNCHANGED free_pages
            /\ th' = [th EXCEPT ![t] = [@ EXCEPT !.ret = err, !.pc = "F_unlock"]]
    /\ UNCHANGED <<epcv, zombv, secs_of, memv, mm_count, vmas, installed, relv>>

\* lines 49-51: xa_store may fail for want of memory
F_store(t, ok) ==
    /\ th[t].pc = "F_store"
    /\ IF ok
       THEN /\ page_array' = [page_array EXCEPT ![th[t].epc][th[t].index] = th[t].epc_page]
            /\ th' = [th EXCEPT ![t].pc = "F_insert"]
       ELSE /\ UNCHANGED page_array
            /\ th' = [th EXCEPT ![t] = [@ EXCEPT !.ret = ENOMEM, !.pc = "F_err_free"]]
    /\ UNCHANGED <<epc_state, epc_mm, lock, zombv, hwv, memv, mm_count, vmas, histv>>

\* The error __sgx_virt_epc_fault makes of vmf_insert_pfn's result (56-59).
InsertError(res) == IF res # VM_FAULT_NOPAGE THEN EFAULT ELSE 0

\* lines 53-61: install_frame -> Ok | Retry | Fatal
F_insert(t, res) ==
    /\ th[t].pc = "F_insert"
    /\ IF InsertError(res) = 0
       THEN /\ installed' = [installed EXCEPT ![th[t].epc][th[t].index] =
                                                 @ \cup {th[t].epc_page}]
            /\ th' = [th EXCEPT ![t] = [@ EXCEPT !.ret = 0, !.insert_res = res,
                                                !.epc_page = NULL,
                                                !.pc = "F_unlock"]]
       ELSE /\ UNCHANGED installed
            /\ th' = [th EXCEPT ![t] = [@ EXCEPT !.ret = InsertError(res),
                                                !.insert_res = res,
                                                !.pc = "F_err_delete"]]
    /\ UNCHANGED <<epcv, zombv, hwv, memv, mm_count, vmas, relv>>

\* The error path without the xa_erase of line 64.
F_err_deleteSkip(t) ==
    /\ th[t].pc = "F_err_delete"
    /\ th' = [th EXCEPT ![t].pc = "F_err_free"]
    /\ UNCHANGED <<epcv, zombv, hwv, memv, mm_count, vmas, histv>>

\* line 64: xa_erase
F_err_delete(t) ==
    /\ th[t].pc = "F_err_delete"
    /\ page_array' = [page_array EXCEPT ![th[t].epc][th[t].index] = NULL]
    /\ th' = [th EXCEPT ![t].pc = "F_err_free"]
    /\ UNCHANGED <<epc_state, epc_mm, lock, zombv, hwv, memv, mm_count, vmas, histv>>

\* The error path without the sgx_free_epc_page of line 66.
F_err_freeSkip(t) ==
    /\ th[t].pc = "F_err_free"
    /\ th' = [th EXCEPT ![t] = [@ EXCEPT !.epc_page = NULL, !.pc = "F_unlock"]]
    /\ UNCHANGED <<epcv, zombv, hwv, memv, mm_count, vmas, histv>>

\* line 66: sgx_free_epc_page
F_err_free(t) ==
    /\ th[t].pc = "F_err_free"
    /\ free_pages' = free_pages \cup {th[t].epc_page}
    /\ th' = [th EXCEPT ![t] = [@ EXCEPT !.epc_page = NULL, !.pc = "F_unlock"]]
    /\ UNCHANGED <<epcv, zombv, secs_of, memv, mm_count, vmas, histv>>

\* Line 83 without the test of FAULT_FLAG_ALLOW_RETRY.
FaultResultNoFlag(ret, sig, flags) ==
    IF ret = 0 \/ sig THEN VM_FAULT_NOPAGE
    ELSE IF ret = EBUSY THEN VM_FAULT_RETRY
    ELSE VM_FAULT_SIGBUS

\* The vm_fault_t sgx_virt_epc_fault returns for ret (80-88).
FaultResult(ret, sig, flags) ==
    IF ret = 0 \/ sig THEN VM_FAULT_NOPAGE
    ELSE IF ret = EBUSY /\ "FAULT_FLAG_ALLOW_RETRY" \in flags THEN VM_FAULT_RETRY
    ELSE VM_FAULT_SIGBUS

\* line 78 and lines 80-88: up_write(&epc->lock), then the result; sig is
\* signal_pending(current), flags is vmf->flags, err keeps the value of ret
F_unlock(t, sig, flags) ==
    /\ th[t].pc = "F_unlock"
    /\ lock' = [lock EXCEPT ![th[t].epc] = 0]
    /\ LET res == FaultResult(th[t].ret, sig, flags)
       IN th' = [th EXCEPT ![t] = [@ EXCEPT !.err = th[t].ret, !.ret = res,
                     !.sig = sig, !.flags = flags, !.addr = 0, !.index = 0,
                     !.pc = "ret", !.mmap_locked = (res # VM_FAULT_RETRY)]]
    /\ UNCHANGED <<epc_state, epc_mm, page_array, zombv, hwv, memv, mm_count, vmas, histv>>

FaultSteps(t) ==
    \/ F_lock(t)
    \/ \E p \in Pages : F_alloc(t, p, 0)
    \/ \E err \in {ENOMEM, EBUSY} : F_alloc(t, 1, err)
    \/ \E ok \in BOOLEAN : F_store(t, ok)
    \/ \E res \in {VM_FAULT_NOPAGE, VM_FAULT_RETRY, VM_FAULT_SIGBUS} : F_insert(t, res)
    \/ F_err_delete(t)
    \/ F_err_free(t)
    \/ \E sig \in BOOLEAN, flags \in {{}, {"FAULT_FLAG_ALLOW_RETRY"}} :
          F_unlock(t, sig, flags)

\* ------------------------------------------------------ access (91-148)
\* A debugger asks for len bytes at start inside a bound mapping.
AccessCall(t, v, start, len, write, buf) ==
    /\ th[t].op = "idle"
    /\ vmas[v].state = "bound"
    /\ start >= VM_START /\ start + len <= VM_START + VmaBytes
    /\ th' = [th EXCEPT ![t] = [Idle EXCEPT !.op = "access", !.pc = "A_loop",
                 !.vma = v, !.epc = vmas[v].vm_private_data, !.start = start,
                 !.len = len, !.write = write, !.buf = buf]]
    /\ UNCHANGED <<epcv, zombv, hwv, memv, mm_count, vmas, histv>>

\* Line 107 without the page test: the index is computed once.
NewIndexFirstOnly(i, addr, cnt) == i = 0

\* line 107: whether the index is computed afresh for the chunk at addr
NewIndex(i, addr, cnt) == i = 0 \/ PFN_DOWN(addr) # PFN_DOWN(addr - cnt)

\* lines 105-108: the loop test and the index of the next chunk
A_loop(t) ==
    /\ th[t].pc = "A_loop"
    /\ LET addr == th[t].start + th[t].i
       IN th' = [th EXCEPT ![t] =
                   IF th[t].i < th[t].len /\ th[t].ret = 0
                   THEN [@ EXCEPT !.addr = addr,
                                  !.index = IF NewIndex(th[t].i, addr, th[t].cnt)
                                            THEN sgx_virt_epc_calc_index(vmas[th[t].vma], addr)
                                            ELSE @,
                                  !.pc = "A_lock"]
                   ELSE [@ EXCEPT !.pc = "A_ret"]]
    /\ UNCHANGED <<epcv, zombv, hwv, memv, mm_count, vmas, histv>>

\* line 110
A_lock(t) ==
    /\ th[t].pc = "A_lock"
    /\ lock[th[t].epc] = 0
    /\ lock' = [lock EXCEPT ![th[t].epc] = t]
    /\ th' = [th EXCEPT ![t].pc = "A_load"]
    /\ UNCHANGED <<epc_state, epc_mm, page_array, zombv, hwv, memv, mm_count, vmas, histv>>

\* A lookup that faults the page in when the entry is missing.
A_loadFaultsIn(t) ==
    /\ th[t].pc = "A_load"
    /\ LET entry == page_array[th[t].epc][th[t].index]
       IN IF entry = NULL
          THEN \E p \in free_pages :
                 /\ free_pages' = free_pages \ {p}
                 /\ page_array' = [page_array EXCEPT ![th[t].epc][th[t].index] = p]
                 /\ th' = [th EXCEPT ![t] = [@ EXCEPT !.epc_page = p, !.pc = "A_chunk"]]
          ELSE /\ UNCHANGED <<free_pages, page_array>>
               /\ th' = [th EXCEPT ![t] = [@ EXCEPT !.epc_page = entry, !.pc = "A_chunk"]]
    /\ UNCHANGED <<epc_state, epc_mm, lock, zombv, secs_of, memv, mm_count, vmas, histv>>

\* The early return of lines 119-122 without the up_write of line 120.
A_loadKeepLock(t) ==
    /\ th[t].pc = "A_load"
    /\ LET entry == page_array[th[t].epc][th[t].index]
       IN th' = [th EXCEPT ![t] =
                   IF entry = NULL
                   THEN [@ EXCEPT !.ret = EIO, !.miss = TRUE, !.fail_i = th[t].i,
                                  !.pc = "ret"]
                   ELSE [@ EXCEPT !.epc_page = entry, !.pc = "A_chunk"]]
    /\ UNCHANGED <<epcv, zombv, hwv, memv, mm_count, vmas, histv>>

\* lines 111-122: a missing entry ends the access with -EIO, lock dropped
A_load(t) ==
    /\ th[t].pc = "A_load"
    /\ LET entry == page_array[th[t].epc][th[t].index]
       IN IF entry = NULL
          THEN /\ lock' = [lock EXCEPT ![th[t].epc] = 0]
               /\ th' = [th EXCEPT ![t] = [@ EXCEPT !.ret = EIO, !.miss = TRUE,
                                                   !.fail_i = th[t].i, !.pc = "ret"]]
          ELSE /\ UNCHANGED lock
               /\ th' = [th EXCEPT ![t] = [@ EXCEPT !.epc_page = entry, !.pc = "A_chunk"]]
    /\ UNCHANGED <<epc_state, epc_mm, page_array, zombv, hwv, memv, mm_count, vmas, histv>>

\* lines 124-126
ChunkOffset(addr) == addr % WORD
ALIGN_DOWN(addr) == addr - (addr % WORD)
ChunkCnt(addr, len, i) ==
    IF WORD - ChunkOffset(addr) < len - i THEN WORD - ChunkOffset(addr) ELSE len - i
\* line 128: the word of the page that p points at
WordNo(addr) == (ALIGN_DOWN(addr) % PAGE_SIZE) \div WORD

\* Line 131 without the test of cnt: no read before a partial write.
NeedReadOnlyForRead(write, cnt) == ~write

\* line 131: EDBGRD runs for a read, or for a write of less than a word
NeedRead(write, cnt) == ~write \/ cnt # WORD

\* Line 136 without the offset: the bytes land at the start of the word.
OverlayAtZero(data, offset, buf, i, cnt) ==
    [k \in 1..WORD |-> IF k - 1 < cnt THEN buf[i + (k - 1) + 1] ELSE data[k]]

\* line 136: memcpy(data + offset, buf + i, cnt)
Overlay(data, offset, buf, i, cnt) ==
    [k \in 1..WORD |-> IF k - 1 >= offset /\ k - 1 < offset + cnt
                       THEN buf[i + (k - 1 - offset) + 1]
                       ELSE data[k]]
\* line 139: memcpy(buf + i, data + offset, cnt)
Extract(buf, i, data, offset, cnt) ==
    [k \in 1..Len(buf) |-> IF k - 1 >= i /\ k - 1 < i + cnt
                           THEN data[offset + (k - 1 - i) + 1]
                           ELSE buf[k]]

\* lines 124-141: one chunk; rd_ok and wr_ok say whether EDBGRD and EDBGWR
\* succeed.  data starts as the bytes on the stack (stack) and is loaded from
\* the page only when EDBGRD runs.
A_chunk(t, rd_ok, wr_ok, stack) ==
    /\ th[t].pc = "A_chunk"
    /\ LET offset == ChunkOffset(th[t].addr)
           cnt    == ChunkCnt(th[t].addr, th[t].len, th[t].i)
           w      == WordNo(th[t].addr)
           pg     == th[t].epc_page
           rd     == NeedRead(th[t].write, cnt)
           data   == IF rd THEN mem[pg][w] ELSE stack
           ret1   == IF rd /\ ~rd_ok THEN 1 ELSE 0
           ret2   == IF ret1 = 0 /\ th[t].write /\ ~wr_ok THEN 1 ELSE ret1
       IN /\ mem' = IF ret1 = 0 /\ th[t].write /\ wr_ok
                    THEN [mem EXCEPT ![pg][w] = Overlay(data, offset, th[t].buf, th[t].i, cnt)]
                    ELSE mem
          /\ th' = [th EXCEPT ![t] = [@ EXCEPT
                       !.cnt = cnt,
                       !.buf = IF ret1 = 0 /\ ~th[t].write
                               THEN Extract(@, th[t].i, data, offset, cnt) ELSE @,
                       !.ret = ret2,
                       !.insn_fail = (ret2 # 0),
                       !.fail_i = IF ret2 # 0 THEN th[t].i ELSE @,
                       !.epc_page = NULL,
                       !.pc = "A_unlock"]]
    /\ UNCHANGED <<epcv, zombv, hwv, mm_count, vmas, histv>>

\* line 142, then the loop's i += cnt
A_unlock(t) ==
    /\ th[t].pc = "A_unlock"
    /\ lock' = [lock EXCEPT ![th[t].epc] = 0]
    /\ th' = [th EXCEPT ![t] = [@ EXCEPT !.i = @ + th[t].cnt, !.pc = "A_loop"]]
    /\ UNCHANGED <<epc_state, epc_mm, page_array, zombv, hwv, memv, mm_count, vmas, histv>>

\* Lines 145-147 without the test of ret: the count is returned regardless.
AccessResultCount(ret, i) == i

\* lines 145-147: what sgx_virt_epc_access returns after the loop
AccessResult(ret, i) == IF ret # 0 THEN EIO ELSE i

A_ret(t) ==
    /\ th[t].pc = "A_ret"
    /\ th' = [th EXCEPT ![t] = [@ EXCEPT !.ret = AccessResult(th[t].ret, th[t].i),
                                        !.pc = "ret"]]
    /\ UNCHANGED <<epcv, zombv, hwv, memv, mm_count, vmas, histv>>

\* A full-word write never reads data before memcpy fills it, so the bytes
\* the stack held are chosen from the two extremes.
StackWords == {[k \in 1..WORD |-> 0], [k \in 1..WORD |-> 255]}

AccessSteps(t) ==
    \/ A_loop(t)
    \/ A_lock(t)
    \/ A_load(t)
    \/ \E rd_ok \in BOOLEAN, wr_ok \in BOOLEAN, stack \in StackWords :
          A_chunk(t, rd_ok, wr_ok, stack)
    \/ A_unlock(t)
    \/ A_ret(t)

\* ----------------------------------------------------- guest activity
\* The guest builds an enclave out of pages it has mapped: page q becomes
\* (or already is) a SECS and page c is added as its child.  Enclaves are
\* one level deep: a SECS is nobody's child and a child has no children.
Resident(p) ==
    \E r \in Regions, i \in Indices :
        /\ epc_state[r] = "open"
        /\ page_array[r][i] = p
        /\ p \in installed[r][i]
HasChild(p) == \E c \in Pages : secs_of[c] = p

GuestEADD(c, q) ==
    /\ c # q
    /\ Resident(c) /\ Resident(q)
    /\ secs_of[c] = 0 /\ secs_of[q] = 0
    /\ ~HasChild(c)
    /\ secs_of' = [secs_of EXCEPT ![c] = q]
    /\ UNCHANGED <<epcv, zombv, free_pages, memv, mm_count, vmas, th, histv>>

\* ---------------------------------------------------- release (172-248)
\* remove_page -> Ok | StillHasChildren
EremoveFails(p) == HasChild(p)

\* xa_for_each: the first present entry at or after cursor, or -1
NextIndex(r, cursor) ==
    IF \E i \in Indices : i >= cursor /\ page_array[r][i] # NULL
    THEN CHOOSE i \in Indices :
            /\ i >= cursor /\ page_array[r][i] # NULL
            /\ \A j \in Indices : (j >= cursor /\ page_array[r][j] # NULL) => i <= j
    ELSE -1

\* The last reference to the file is gone: no mapping, nobody inside.
ReleaseCall(t, r) ==
    /\ th[t].op = "idle"
    /\ epc_state[r] = "open"
    /\ MappedTo(r) = {}
    /\ Using(r) = {}
    /\ epc_state' = [epc_state EXCEPT ![r] = "releasing"]
    /\ rel_start' = [rel_start EXCEPT ![r] =
                        {page_array[r][i] : i \in Indices} \ {NULL}]
    /\ th' = [th EXCEPT ![t] = [Idle EXCEPT !.op = "release", !.pc = "R_mmdrop",
                                           !.epc = r]]
    /\ UNCHANGED <<epc_mm, page_array, lock, zombv, hwv, memv, mm_count, vmas,
                   installed, rel_freed, rel_zombie, rel_taken>>

\* A release without the mmdrop of line 197.
R_mmdropSkip(t) ==
    /\ th[t].pc = "R_mmdrop"
    /\ th' = [th EXCEPT ![t].pc = "R1_free"]
    /\ UNCHANGED <<epcv, zombv, hwv, memv, mm_count, vmas, histv>>

\* line 197
R_mmdrop(t) ==
    /\ th[t].pc = "R_mmdrop"
    /\ mm_count' = [mm_count EXCEPT ![epc_mm[th[t].epc]] = @ - 1]
    /\ th' = [th EXCEPT ![t].pc = "R1_free"]
    /\ UNCHANGED <<epcv, zombv, hwv, memv, vmas, histv>>

\* Where pass 1 goes after sgx_virt_epc_free_page (200-203): a page whose
\* removal failed stays in the table.
Pass1AfterAlwaysErase(failed) == "R1_erase"
Pass1After(failed) == IF failed THEN "R1_free" ELSE "R1_erase"

\* A release without the first loop (199-204): pass 2 is the only pass.
R1_freeNoPass1(t) ==
    /\ th[t].pc = "R1_free"
    /\ th' = [th EXCEPT ![t] = [@ EXCEPT !.cursor = 0, !.index = 0, !.pc = "R2_free"]]
    /\ UNCHANGED <<epcv, zombv, hwv, memv, mm_count, vmas, histv>>

\* lines 199-201: the next entry of pass 1 and sgx_virt_epc_free_page on it
R1_free(t) ==
    /\ th[t].pc = "R1_free"
    /\ LET r == th[t].epc
           index == NextIndex(r, th[t].cursor)
           entry == page_array[r][index]
       IN IF index = -1
          THEN /\ th' = [th EXCEPT ![t] = [@ EXCEPT !.cursor = 0, !.index = 0,
                                                   !.pc = "R2_free"]]
               /\ UNCHANGED <<hwv, rel_freed>>
          ELSE IF EremoveFails(entry)
          THEN /\ th' = [th EXCEPT ![t] = [@ EXCEPT !.index = index,
                                                   !.cursor = index + 1,
                                                   !.pc = Pass1After(TRUE)]]
               /\ UNCHANGED <<hwv, rel_freed>>
          ELSE /\ secs_of' = [secs_of EXCEPT ![entry] = 0]
               /\ free_pages' = free_pages \cup {entry}
               /\ rel_freed' = [rel_freed EXCEPT ![r] = @ \cup {entry}]
               /\ th' = [th EXCEPT ![t] = [@ EXCEPT !.index = index,
                                                   !.pc = Pass1After(FALSE)]]
    /\ UNCHANGED <<epcv, zombv, memv, mm_count, vmas, installed,
                   rel_start, rel_zombie, rel_taken>>

\* line 203
R1_erase(t) ==
    /\ th[t].pc = "R1_erase"
    /\ page_array' = [page_array EXCEPT ![th[t].epc][th[t].index] = NULL]
    /\ th' = [th EXCEPT ![t] = [@ EXCEPT !.cursor = th[t].index + 1, !.pc = "R1_free"]]
    /\ UNCHANGED <<epc_state, epc_mm, lock, zombv, hwv, memv, mm_count, vmas, histv>>

\* line 217: what pass 2 does with a page whose removal failed
Pass2DeferDrop(secs_pages, epc_page) == secs_pages
Pass2Defer(secs_pages, epc_page) == Append(secs_pages, epc_page)

\* lines 214-217: the next entry of pass 2, freed or put on secs_pages
R2_free(t) ==
    /\ th[t].pc = "R2_free"
    /\ LET r == th[t].epc
           index == NextIndex(r, th[t].cursor)
           entry == page_array[r][index]
       IN IF index = -1
          THEN /\ th' = [th EXCEPT ![t] = [@ EXCEPT !.cursor = 0, !.index = 0,
                                                   !.pc = "R3_lock"]]
               /\ UNCHANGED <<hwv, rel_freed>>
          ELSE IF EremoveFails(entry)
          THEN /\ th' = [th EXCEPT ![t] = [@ EXCEPT !.index = index,
                            !.secs_pages = Pass2Defer(@, entry), !.pc = "R2_erase"]]
               /\ UNCHANGED <<hwv, rel_freed>>
          ELSE /\ secs_of' = [secs_of EXCEPT ![entry] = 0]
               /\ free_pages' = free_pages \cup {entry}
               /\ rel_freed' = [rel_freed EXCEPT ![r] = @ \cup {entry}]
               /\ th' = [th EXCEPT ![t] = [@ EXCEPT !.index = index, !.pc = "R2_erase"]]
    /\ UNCHANGED <<epcv, zombv, memv, mm_count, vmas, installed,
                   rel_start, rel_zombie, rel_taken>>

\* line 219
R2_erase(t) ==
    /\ th[t].pc = "R2_erase"
    /\ page_array' = [page_array EXCEPT ![th[t].epc][th[t].index] = NULL]
    /\ th' = [th EXCEPT ![t] = [@ EXCEPT !.cursor = th[t].index + 1, !.pc = "R2_free"]]
    /\ UNCHANGED <<epc_state, epc_mm, lock, zombv, hwv, memv, mm_count, vmas, histv>>

\* Pass 3 entered without the mutex_lock of line 227.
R3_lockSkip(t) ==
    /\ th[t].pc = "R3_lock"
    /\ th' = [th EXCEPT ![t].pc = "R3_del"]
    /\ UNCHANGED <<epcv, zombv, hwv, memv, mm_count, vmas, histv>>

\* line 227
R3_lock(t) ==
    /\ th[t].pc = "R3_lock"
    /\ virt_epc_lock = 0
    /\ virt_epc_lock' = t
    /\ th' = [th EXCEPT ![t].pc = "R3_del"]
    /\ UNCHANGED <<epcv, virt_epc_zombie_pages, hwv, memv, mm_count, vmas, histv>>

\* lines 228-235: the walk's next entry is unlinked from the registry; every
\* entry walked is unlinked, so the next one is always the head
R3_del(t) ==
    /\ th[t].pc = "R3_del"
    /\ IF virt_epc_zombie_pages = <<>>
       THEN /\ th' = [th EXCEPT ![t].pc = "R3_splice"]
            /\ UNCHANGED <<virt_epc_zombie_pages, rel_taken>>
       ELSE /\ virt_epc_zombie_pages' = Tail(virt_epc_zombie_pages)
            /\ rel_taken' = [rel_taken EXCEPT ![th[t].epc] =
                                @ \cup {Head(virt_epc_zombie_pages)}]
            /\ th' = [th EXCEPT ![t] = [@ EXCEPT
                         !.epc_page = Head(virt_epc_zombie_pages), !.pc = "R3_free"]]
    /\ UNCHANGED <<epcv, virt_epc_lock, hwv, memv, mm_count, vmas, installed,
                   rel_start, rel_freed, rel_zombie>>

\* Lines 237-238 without the list_add_tail: a page that fails again is lost.
R3_freeDrop(t) ==
    /\ th[t].pc = "R3_free"
    /\ LET entry == th[t].epc_page
       IN IF EremoveFails(entry)
          THEN /\ th' = [th EXCEPT ![t] = [@ EXCEPT !.epc_page = NULL, !.pc = "R3_del"]]
               /\ UNCHANGED <<hwv, rel_freed>>
          ELSE /\ secs_of' = [secs_of EXCEPT ![entry] = 0]
               /\ free_pages' = free_pages \cup {entry}
               /\ rel_freed' = [rel_freed EXCEPT ![th[t].epc] = @ \cup {entry}]
               /\ th' = [th EXCEPT ![t] = [@ EXCEPT !.epc_page = NULL, !.pc = "R3_del"]]
    /\ UNCHANGED <<epcv, zombv, memv, mm_count, vmas, installed,
                   rel_start, rel_zombie, rel_taken>>

\* lines 237-238
R3_free(t) ==
    /\ th[t].pc = "R3_free"
    /\ LET entry == th[t].epc_page
       IN IF EremoveFails(entry)
          THEN /\ th' = [th EXCEPT ![t] = [@ EXCEPT !.epc_page = NULL,
                            !.secs_pages = Append(@, entry), !.pc = "R3_del"]]
               /\ UNCHANGED <<hwv, rel_freed>>
          ELSE /\ secs_of' = [secs_of EXCEPT ![entry] = 0]
               /\ free_pages' = free_pages \cup {entry}
               /\ rel_freed' = [rel_freed EXCEPT ![th[t].epc] = @ \cup {entry}]
               /\ th' = [th EXCEPT ![t] = [@ EXCEPT !.epc_page = NULL, !.pc = "R3_del"]]
    /\ UNCHANGED <<epcv, zombv, memv, mm_count, vmas, installed,
                   rel_start, rel_zombie, rel_taken>>

\* lines 241-242: list_splice_tail
SpliceDrop(zombies, secs_pages) == zombies
Splice(zombies, secs_pages) == zombies \o secs_pages

R3_splice(t) ==
    /\ th[t].pc = "R3_splice"
    /\ virt_epc_zombie_pages' = Splice(virt_epc_zombie_pages, th[t].secs_pages)
    /\ rel_zombie' = [rel_zombie EXCEPT ![th[t].epc] =
                         @ \cup {th[t].secs_pages[k] : k \in 1..Len(th[t].secs_pages)}]
    /\ th' = [th EXCEPT ![t] = [@ EXCEPT !.secs_pages = <<>>, !.pc = "R3_unlock"]]
    /\ UNCHANGED <<epcv, virt_epc_lock, hwv, memv, mm_count, vmas, installed,
                   rel_start, rel_freed, rel_taken>>

\* line 243
R3_unlock(t) ==
    /\ th[t].pc = "R3_unlock"
    /\ virt_epc_lock' = 0
    /\ th' = [th EXCEPT ![t].pc = "R_kfree"]
    /\ UNCHANGED <<epcv, virt_epc_zombie_pages, hwv, memv, mm_count, vmas, histv>>

\* lines 245-247
R_kfree(t) ==
    /\ th[t].pc = "R_kfree"
    /\ epc_state' = [epc_state EXCEPT ![th[t].epc] = "freed"]
    /\ th' = [th EXCEPT ![t] = [@ EXCEPT !.ret = 0, !.pc = "ret"]]
    /\ UNCHANGED <<epc_mm, page_array, lock, zombv, hwv, memv, mm_count, vmas, histv>>

ReleaseSteps(t) ==
    \/ R_mmdrop(t)
    \/ R1_free(t)
    \/ R1_erase(t)
    \/ R2_free(t)
    \/ R2_erase(t)
    \/ R3_lock(t)
    \/ R3_del(t)
    \/ R3_free(t)
    \/ R3_splice(t)
    \/ R3_unlock(t)
    \/ R_kfree(t)

\* ------------------------------------------------------ specifications
FaultAddrs == {VM_START + k * PAGE_SIZE : k \in 0..(VmaPages - 1)}
AccessStarts == VM_START..(VM_START + VmaBytes - 1)
ZeroBuf(len) == [k \in 1..len |-> 0]

\* The whole program from module load: every operation, every thread.
Next ==
    \/ \E r \in Regions, mm \in MMs, ok \in BOOLEAN : sgx_virt_epc_open(r, mm, ok)
    \/ \E t \in Threads, v \in Vmas, r \in Regions, mm \in MMs, shared \in BOOLEAN,
          pgoff \in 0..MaxPgoff : sgx_virt_epc_mmap(t, v, r, mm, shared, pgoff)
    \/ \E v \in Vmas : Munmap(v)
    \/ \E t \in Threads : Return(t)
    \/ \E t \in Threads, v \in Vmas, a \in FaultAddrs : FaultCall(t, v, a)
    \/ \E t \in Threads : FaultSteps(t)
    \/ \E t \in Threads, v \in Vmas, start \in AccessStarts, len \in 0..MaxLen,
          write \in BOOLEAN : AccessCall(t, v, start, len, write, ZeroBuf(len))
    \/ \E t \in Threads : AccessSteps(t)
    \/ \E c \in Pages, q \in Pages : GuestEADD(c, q)
    \/ \E t \in Threads, r \in Regions : ReleaseCall(t, r)
    \/ \E t \in Threads : ReleaseSteps(t)

Spec == Init /\ [][Next]_vars

\* Binding only: regions are opened and mappings requested and dropped.
NextBind ==
    \/ \E r \in Regions, mm \in MMs, ok \in BOOLEAN : sgx_virt_epc_open(r, mm, ok)
    \/ \E t \in Threads, v \in Vmas, r \in Regions, mm \in MMs, shared \in BOOLEAN,
          pgoff \in 0..MaxPgoff : sgx_virt_epc_mmap(t, v, r, mm, shared, pgoff)
    \/ \E v \in Vmas : Munmap(v)
    \/ \E t \in Threads : Return(t)

SpecBind == Init /\ [][NextBind]_vars

\* The address space that opens region r in the prepared states below.
OwnerOf(r) == ((r - 1) % NumMM) + 1
\* The mapping the host holds after a successful bind of region r at pgoff.
BoundVma(r, pgoff) ==
    [MmapVma([NoVma EXCEPT !.vm_mm = epc_mm[r], !.vm_pgoff = pgoff, !.file = r,
                           !.vm_flags = {"VM_SHARED"}], r) EXCEPT !.state = "bound"]

\* Every region open and owned; nothing faulted in yet.
InitOpened ==
    /\ epc_state = [r \in Regions |-> "open"]
    /\ epc_mm = [r \in Regions |-> OwnerOf(r)]
    /\ mm_count = [m \in MMs |-> Cardinality({r \in Regions : OwnerOf(r) = m})]
    /\ page_array = [r \in Regions |-> [i \in Indices |-> NULL]]
    /\ lock = [r \in Regions |-> 0]
    /\ virt_epc_lock = 0
    /\ virt_epc_zombie_pages = <<>>
    /\ free_pages = Pages
    /\ secs_of = [p \in Pages |-> 0]
    /\ mem = ZeroMem
    /\ th = [t \in Threads |-> Idle]
    /\ installed = [r \in Regions |-> [i \in Indices |-> {}]]
    /\ rel_start = [r \in Regions |-> {}]
    /\ rel_freed = [r \in Regions |-> {}]
    /\ rel_zombie = [r \in Regions |-> {}]
    /\ rel_taken = [r \in Regions |-> {}]

\* Faults and debug accesses on mappings bound earlier: mapping 1 backs
\* region 1 from offset 0, the other mappings back any region at any offset.
\* Thread t works through mapping VmaOf(t); two threads meet in one region
\* when their mappings back the same region.
VmaOf(t) == ((t - 1) % NumVmas) + 1
\* The debugger reads or writes zeroes at the start of the mapping or across
\* its first page boundary.
VmStarts == {VM_START, VM_START + PAGE_SIZE - 1}

InitVm ==
    /\ InitOpened
    /\ \E f \in [Vmas -> Regions], g \in [Vmas -> 0..MaxPgoff] :
          /\ f[1] = 1 /\ g[1] = 0
          /\ vmas = [v \in Vmas |-> BoundVma(f[v], g[v])]

NextFault ==
    \/ \E t \in Threads : Return(t)
    \/ \E t \in Threads, a \in FaultAddrs : FaultCall(t, VmaOf(t), a)
    \/ \E t \in Threads : FaultSteps(t)

SpecFault == InitVm /\ [][NextFault]_vars

NextVm ==
    \/ NextFault
    \/ \E t \in Threads, start \in VmStarts, len \in 1..2, write \in BOOLEAN :
          AccessCall(t, VmaOf(t), start, len, write, ZeroBuf(len))
    \/ \E t \in Threads : AccessSteps(t)

SpecVm == InitVm /\ [][NextVm]_vars

\* Debug accesses through mapping 1, bound to region 1 at any offset, with
\* any set of the region's indices faulted in earlier.  The pages hold
\* zeroes or bytes that differ from place to place, and the debugger's
\* buffer holds bytes found nowhere in the pages, 0xFF first.
PatternMem ==
    [p \in Pages |-> [w \in 0..(WordsPerPage - 1) |->
        [k \in 1..WORD |-> ((p - 1) * WordsPerPage + w) * WORD + k]]]
UserBuf(len) == [k \in 1..len |-> 256 - k]
RankIn(occ, i) == Cardinality({j \in occ : j <= i})

InitAccess ==
    \E occ \in SUBSET Indices, g \in 0..MaxPgoff, m \in {ZeroMem, PatternMem} :
        /\ Cardinality(occ) <= NumPages
        /\ epc_state = [r \in Regions |-> "open"]
        /\ epc_mm = [r \in Regions |-> OwnerOf(r)]
        /\ mm_count = [mm \in MMs |-> Cardinality({r \in Regions : OwnerOf(r) = mm})]
        /\ page_array = [r \in Regions |-> [i \in Indices |->
               IF r = 1 /\ i \in occ THEN RankIn(occ, i) ELSE NULL]]
        /\ lock = [r \in Regions |-> 0]
        /\ virt_epc_lock = 0
        /\ virt_epc_zombie_pages = <<>>
        /\ free_pages = Pages \ (1..Cardinality(occ))
        /\ secs_of = [p \in Pages |-> 0]
        /\ mem = m
        /\ vmas = [v \in Vmas |-> IF v = 1 THEN BoundVma(1, g) ELSE NoVma]
        /\ th = [t \in Threads |-> Idle]
        /\ installed = [r \in Regions |-> [i \in Indices |->
               IF r = 1 /\ i \in occ THEN {RankIn(occ, i)} ELSE {}]]
        /\ rel_start = [r \in Regions |-> {}]
        /\ rel_freed = [r \in Regions |-> {}]
        /\ rel_zombie = [r \in Regions |-> {}]
        /\ rel_taken = [r \in Regions |-> {}]

NextAccess ==
    \/ \E t \in Threads, start \in AccessStarts, len \in 0..MaxLen, write \in BOOLEAN :
          AccessCall(t, VmaOf(t), start, len, write, UserBuf(len))
    \/ \E t \in Threads : AccessSteps(t)

SpecAccess == InitAccess /\ [][NextAccess]_vars

\* Teardown of regions that were populated earlier.  Pages are numbered in
\* the order of the slots (region, then index) they occupy; the guest has
\* built any one-level enclaves out of the pages it holds.
Slots == Regions \X Indices
SlotBefore(s, u) == s[1] < u[1] \/ (s[1] = u[1] /\ s[2] <= u[2])
PageIn(occ, s) == Cardinality({u \in occ : SlotBefore(u, s)})
TableOf(occ) ==
    [r \in Regions |-> [i \in Indices |->
        IF <<r, i>> \in occ THEN PageIn(occ, <<r, i>>) ELSE NULL]]
OneLevel(sec, n) ==
    \A c \in Pages :
        sec[c] # 0 => /\ c <= n /\ sec[c] <= n /\ sec[c] # c
                      /\ sec[sec[c]] = 0
                      /\ \A d \in Pages : sec[d] # c

InitPopulated(occ, sec) ==
    /\ epc_state = [r \in Regions |-> "open"]
    /\ epc_mm = [r \in Regions |-> OwnerOf(r)]
    /\ mm_count = [m \in MMs |-> Cardinality({r \in Regions : OwnerOf(r) = m})]
    /\ page_array = TableOf(occ)
    /\ lock = [r \in Regions |-> 0]
    /\ virt_epc_lock = 0
    /\ virt_epc_zombie_pages = <<>>
    /\ free_pages = Pages \ (1..Cardinality(occ))
    /\ secs_of = sec
    /\ mem = ZeroMem
    /\ vmas = [v \in Vmas |-> NoVma]
    /\ th = [t \in Threads |-> Idle]
    /\ installed = [r \in Regions |-> [i \in Indices |->
                      IF <<r, i>> \in occ THEN {PageIn(occ, <<r, i>>)} ELSE {}]]
    /\ rel_start = [r \in Regions |-> {}]
    /\ rel_freed = [r \in Regions |-> {}]
    /\ rel_zombie = [r \in Regions |-> {}]
    /\ rel_taken = [r \in Regions |-> {}]

InitRelease ==
    \E occ \in SUBSET Slots, sec \in [Pages -> Pages \cup {0}] :
        /\ Cardinality(occ) <= NumPages
        /\ OneLevel(sec, Cardinality(occ))
        /\ InitPopulated(occ, sec)

NextRelease ==
    \/ \E t \in Threads, r \in Regions : ReleaseCall(t, r)
    \/ \E t \in Threads : ReleaseSteps(t)
    \/ \E t \in Threads : Return(t)

SpecRelease == InitRelease /\ [][NextRelease]_vars

\* End-to-end teardown across two regions: region 1 holds the SECS page 1,
\* whose children are all in region 2 (page 2, and page 3 when it is a second
\* child); page 3 may also be a plain page of either region or free.  Region 2
\* is released after the release of region 1 has completed.
InitScenario ==
    \E ir \in Indices, ic \in Indices, er \in 0..2, ei \in Indices, second \in BOOLEAN :
        /\ er = 0 => (ei = 0 /\ ~second)
        /\ er = 1 => (ei # ir /\ ~second)
        /\ er = 2 => ei # ic
        /\ epc_state = [r \in Regions |-> "open"]
        /\ epc_mm = [r \in Regions |-> OwnerOf(r)]
        /\ mm_count = [m \in MMs |-> Cardinality({r \in Regions : OwnerOf(r) = m})]
        /\ page_array = [r \in Regions |-> [i \in Indices |->
               IF r = 1 /\ i = ir THEN 1
               ELSE IF r = 2 /\ i = ic THEN 2
               ELSE IF r = er /\ i = ei THEN 3
               ELSE NULL]]
        /\ lock = [r \in Regions |-> 0]
        /\ virt_epc_lock = 0
        /\ virt_epc_zombie_pages = <<>>
        /\ free_pages = Pages \ (IF er = 0 THEN {1, 2} ELSE {1, 2, 3})
        /\ secs_of = [p \in Pages |-> IF p = 2 \/ (p = 3 /\ second) THEN 1 ELSE 0]
        /\ mem = ZeroMem
        /\ vmas = [v \in Vmas |-> NoVma]
        /\ th = [t \in Threads |-> Idle]
        /\ installed = [r \in Regions |-> [i \in Indices |->
               IF r = 1 /\ i = ir THEN {1}
               ELSE IF r = 2 /\ i = ic THEN {2}
               ELSE IF r = er /\ i = ei THEN {3}
               ELSE {}]]
        /\ rel_start = [r \in Regions |-> {}]
        /\ rel_freed = [r \in Regions |-> {}]
        /\ rel_zombie = [r \in Regions |-> {}]
        /\ rel_taken = [r \in Regions |-> {}]

NextScenario ==
    \/ \E t \in Threads, r \in Regions :
          /\ r # 1 => epc_state[1] = "freed" /\ \A u \in Threads : th[u].op = "idle"
          /\ r <= 2
          /\ ReleaseCall(t, r)
    \/ \E t \in Threads : ReleaseSteps(t)
    \/ \E t \in Threads : Return(t)

SpecScenario == InitScenario /\ [][NextScenario]_vars

\* Teardown next to a live region: region 1 was populated earlier and has
\* no mapping left, so it can be released, while the last mapping (bound to
\* region 2 from offset 0) still takes faults.
InitTeardown ==
    \E occ \in SUBSET Slots, sec \in [Pages -> Pages \cup {0}] :
        /\ Cardinality(occ) <= NumPages
        /\ OneLevel(sec, Cardinality(occ))
        /\ epc_state = [r \in Regions |-> "open"]
        /\ epc_mm = [r \in Regions |-> OwnerOf(r)]
        /\ mm_count = [m \in MMs |-> Cardinality({r \in Regions : OwnerOf(r) = m})]
        /\ page_array = TableOf(occ)
        /\ lock = [r \in Regions |-> 0]
        /\ virt_epc_lock = 0
        /\ virt_epc_zombie_pages = <<>>
        /\ free_pages = Pages \ (1..Cardinality(occ))
        /\ secs_of = sec
        /\ mem = ZeroMem
        /\ vmas = [v \in Vmas |-> IF v = NumVmas THEN BoundVma(2, 0) ELSE NoVma]
        /\ th = [t \in Threads |-> Idle]
        /\ installed = [r \in Regions |-> [i \in Indices |->
                          IF <<r, i>> \in occ THEN {PageIn(occ, <<r, i>>)} ELSE {}]]
        /\ rel_start = [r \in Regions |-> {}]
        /\ rel_freed = [r \in Regions |-> {}]
        /\ rel_zombie = [r \in Regions |-> {}]
        /\ rel_taken = [r \in Regions |-> {}]

NextTeardown ==
    \/ \E t \in Threads, r \in Regions : ReleaseCall(t, r)
    \/ \E t \in Threads : ReleaseSteps(t)
    \/ \E t \in Threads, a \in FaultAddrs : FaultCall(t, VmaOf(t), a)
    \/ \E t \in Threads : FaultSteps(t)
    \/ \E v \in Vmas : Munmap(v)
    \/ \E t \in Threads : Return(t)

SpecTeardown == InitTeardown /\ [][NextTeardown]_vars

\* Teardown with a registry that an earlier teardown may have left a page
\* in: the page after the last table page is then a zombie SECS in the
\* registry, and pages in the tables may be its children.
InitRetry ==
    \E occ \in SUBSET Slots, sec \in [Pages -> Pages \cup {0}], z \in 0..1 :
        /\ Cardinality(occ) + z <= NumPages
        /\ OneLevel(sec, Cardinality(occ) + z)
        /\ z = 1 => sec[Cardinality(occ) + 1] = 0
        /\ epc_state = [r \in Regions |-> "open"]
        /\ epc_mm = [r \in Regions |-> OwnerOf(r)]
        /\ mm_count = [m \in MMs |-> Cardinality({r \in Regions : OwnerOf(r) = m})]
        /\ page_array = TableOf(occ)
        /\ lock = [r \in Regions |-> 0]
        /\ virt_epc_lock = 0
        /\ virt_epc_zombie_pages = IF z = 1 THEN <<Cardinality(occ) + 1>> ELSE <<>>
        /\ free_pages = Pages \ (1..(Cardinality(occ) + z))
        /\ secs_of = sec
        /\ mem = ZeroMem
        /\ vmas = [v \in Vmas |-> NoVma]
        /\ th = [t \in Threads |-> Idle]
        /\ installed = [r \in Regions |-> [i \in Indices |->
                          IF <<r, i>> \in occ THEN {PageIn(occ, <<r, i>>)} ELSE {}]]
        /\ rel_start = [r \in Regions |-> {}]
        /\ rel_freed = [r \in Regions |-> {}]
        /\ rel_zombie = [r \in Regions |-> {}]
        /\ rel_taken = [r \in Regions |-> {}]

SpecRetry == InitRetry /\ [][NextRelease]_vars

\* Teardown when region 1 is self-contained: every SECS page in its table
\* has all its children in its table.  The other regions are as before.
TablePages(r) == {page_array[r][i] : i \in Indices} \ {NULL}
SelfContained(r) ==
    \A c \in Pages : secs_of[c] \in TablePages(r) => c \in TablePages(r)

InitContained == InitRelease /\ SelfContained(1)

SpecContained == InitContained /\ [][NextRelease]_vars

\* Contention for one region under a fair scheduler: every mapping is bound
\* to region 1 from offset 0, so every fault and every debug access meets the others at
\* the same lock, on the same index or on different ones.  The debugger
\* reads two bytes, at the start of the mapping or across its first page
\* boundary.  A thread that can take a step of its operation eventually
\* does, and a thread waiting in down_write gets the lock if it is free
\* again and again (the rw_semaphore queues its waiters).
InitContend ==
    /\ InitOpened
    /\ vmas = [v \in Vmas |-> BoundVma(1, 0)]

NextContend ==
    \/ \E t \in Threads : Return(t)
    \/ \E t \in Threads, a \in FaultAddrs : FaultCall(t, VmaOf(t), a)
    \/ \E t \in Threads : FaultSteps(t)
    \/ \E t \in Threads, start \in VmStarts :
          AccessCall(t, VmaOf(t), start, 2, FALSE, ZeroBuf(2))
    \/ \E t \in Threads : AccessSteps(t)

FairContend ==
    \A t \in Threads :
        /\ WF_vars(FaultSteps(t) \/ AccessSteps(t))
        /\ SF_vars(F_lock(t))
        /\ SF_vars(A_lock(t))

SpecContend == InitContend /\ [][NextContend]_vars /\ FairContend

\* The life of regions from open to release: region 1 is open and was
\* populated earlier, the other regions are opened, by any address space,
\* during the run; every region is released once nothing maps it.  An
\* earlier teardown may have left a zombie SECS page in the registry.
InitLifetime ==
    \E occ \in SUBSET ({1} \X Indices), sec \in [Pages -> Pages \cup {0}], z \in 0..1 :
        /\ Cardinality(occ) + z <= NumPages
        /\ OneLevel(sec, Cardinality(occ) + z)
        /\ z = 1 => sec[Cardinality(occ) + 1] = 0
        /\ epc_state = [r \in Regions |-> IF r = 1 THEN "open" ELSE "none"]
        /\ epc_mm = [r \in Regions |-> IF r = 1 THEN OwnerOf(1) ELSE 0]
        /\ mm_count = [m \in MMs |-> IF m = OwnerOf(1) THEN 1 ELSE 0]
        /\ page_array = TableOf(occ)
        /\ lock = [r \in Regions |-> 0]
        /\ virt_epc_lock = 0
        /\ virt_epc_zombie_pages = IF z = 1 THEN <<Cardinality(occ) + 1>> ELSE <<>>
        /\ free_pages = Pages \ (1..(Cardinality(occ) + z))
        /\ secs_of = sec
        /\ mem = ZeroMem
        /\ vmas = [v \in Vmas |-> NoVma]
        /\ th = [t \in Threads |-> Idle]
        /\ installed = [r \in Regions |-> [i \in Indices |->
                          IF <<r, i>> \in occ THEN {PageIn(occ, <<r, i>>)} ELSE {}]]
        /\ rel_start = [r \in Regions |-> {}]
        /\ rel_freed = [r \in Regions |-> {}]
        /\ rel_zombie = [r \in Regions |-> {}]
        /\ rel_taken = [r \in Regions |-> {}]

NextLifetime ==
    \/ \E r \in Regions, mm \in MMs, ok \in BOOLEAN : sgx_virt_epc_open(r, mm, ok)
    \/ \E t \in Threads, r \in Regions : ReleaseCall(t, r)
    \/ \E t \in Threads : ReleaseSteps(t)
    \/ \E t \in Threads : Return(t)

SpecLifetime == InitLifetime /\ [][NextLifetime]_vars

\* --------------------------------------------------------------- claims
\* The places the claims count a page in: free in the page source, a slot of
\* the table of a region that exists (opened and not yet freed), a link of
\* the zombie registry.
OpenSlotsOf(p) ==
    {s \in Slots : epc_state[s[1]] \in {"open", "releasing"}
                     /\ page_array[s[1]][s[2]] = p}
RegistryLinksOf(p) ==
    {k \in 1..Len(virt_epc_zombie_pages) : virt_epc_zombie_pages[k] = p}
Places(p) ==
    (IF p \in free_pages THEN 1 ELSE 0)
      + Cardinality(OpenSlotsOf(p)) + Cardinality(RegistryLinksOf(p))
ReleaseDone(t) == th[t].op = "release" /\ th[t].pc = "ret"
\* A fault or a release that has started and not yet returned.
InProgress(u) == th[u].op \in {"fault", "release"} /\ th[u].pc # "ret"

\* C1 as stated: after any release call completes, every page is in exactly
\* one of: free, in the table of a still-open region, in the zombie registry.
C1_Original ==
    \A t \in Threads : ReleaseDone(t) => \A p \in Pages : Places(p) = 1

\* C1 amended: after a release call completes, and while no other fault or
\* release is in progress, every page is in exactly one of: free, in the
\* table of a still-open region, in the zombie registry.
C1_PagesPartitioned ==
    \A t \in Threads :
        (ReleaseDone(t) /\ \A u \in Threads \ {t} : ~InProgress(u))
            => \A p \in Pages : Places(p) = 1

\* A release has completed with pages in all three places.
C1_Witness ==
    \E t \in Threads :
        /\ ReleaseDone(t) /\ \A u \in Threads \ {t} : ~InProgress(u)
        /\ virt_epc_zombie_pages # <<>>
        /\ rel_freed[th[t].epc] # {}
        /\ \E p \in Pages : OpenSlotsOf(p) # {}

\* C2: in the cross-region scenario the release of region 1 frees its other
\* pages and leaves exactly the SECS page 1 in the registry; the later
\* release of region 2 frees its own pages in passes 1-2 and in pass 3 unlinks
\* page 1 and frees it, ending with an empty registry and every page free.
C2_CrossRegionTeardown ==
    /\ (epc_state[1] = "freed" /\ epc_state[2] = "open")
          => /\ virt_epc_zombie_pages = <<1>>
             /\ \A i \in Indices : page_array[1][i] = NULL
             /\ \A p \in Pages \ {1} : p \in free_pages \/ OpenSlotsOf(p) # {}
    /\ \A t \in Threads :
          (th[t].op = "release" /\ th[t].epc = 2)
             => /\ th[t].pc = "R3_lock"
                   => /\ \A i \in Indices : page_array[2][i] = NULL
                      /\ free_pages = Pages \ {1}
                      /\ virt_epc_zombie_pages = <<1>>
                /\ th[t].pc = "R3_free" => (th[t].epc_page = 1 /\ ~EremoveFails(1))
                /\ th[t].pc \in {"R3_splice", "R3_unlock", "R_kfree", "ret"}
                   => /\ free_pages = Pages
                      /\ virt_epc_zombie_pages = <<>>
                      /\ th[t].secs_pages = <<>>
                      /\ rel_taken[2] = {1} /\ 1 \in rel_freed[2]
    /\ epc_state[2] = "freed" => (free_pages = Pages /\ virt_epc_zombie_pages = <<>>)

\* Both releases of the scenario have completed.
C2_Witness ==
    /\ epc_state[1] = "freed" /\ epc_state[2] = "freed"
    /\ \E t \in Threads : ReleaseDone(t) /\ th[t].epc = 2 /\ rel_taken[2] = {1}

\* The pages a region's faults obtained and installed.
AllocatedTo(r) == UNION {installed[r][i] : i \in Indices}

\* C8 as stated: when a region's release completes, the pages ever allocated
\* to the region are exactly the pages freed during that release plus the
\* pages that release placed in the zombie registry.
C8_Original ==
    \A t \in Threads :
        ReleaseDone(t) =>
            AllocatedTo(th[t].epc) = rel_freed[th[t].epc] \cup rel_zombie[th[t].epc]

\* C8 amended: when a region's release completes, its table is empty and
\* the pages that were in its table when the release began, together with
\* the registry entries its pass 3 unlinked, are exactly the pages freed
\* during that release plus the pages it placed in the zombie registry.
C8_ReleaseAccounting ==
    \A t \in Threads :
        ReleaseDone(t) =>
            LET r == th[t].epc
            IN /\ \A i \in Indices : page_array[r][i] = NULL
               /\ th[t].secs_pages = <<>>
               /\ rel_start[r] \subseteq AllocatedTo(r)
               /\ rel_start[r] \cup rel_taken[r] = rel_freed[r] \cup rel_zombie[r]

\* A release has completed that freed pages of its own table and unlinked
\* and freed a registry entry left by an earlier release.
C8_Witness ==
    \E t \in Threads :
        /\ ReleaseDone(t)
        /\ rel_freed[th[t].epc] \cap rel_start[th[t].epc] # {}
        /\ rel_taken[th[t].epc] # {}
        /\ rel_taken[th[t].epc] \subseteq rel_freed[th[t].epc]

\* A fault that has been delivered and has returned to the host.
FaultDone(t) == th[t].op = "fault" /\ th[t].pc = "ret"
\* Thread t is at the lookup of a fault and the index has a table entry.
AtResolvedLookup(t) ==
    /\ th[t].op = "fault" /\ th[t].pc = "F_lock"
    /\ page_array[th[t].epc][sgx_virt_epc_calc_index(vmas[th[t].vma], th[t].addr)] # NULL

\* C3: a fault on an index that already has a table entry goes from the
\* lookup straight to the unlock: none of its steps allocates, stores,
\* installs or changes any table, and it returns "resolved"; and no index
\* of any region ever has more than one page installed.
C3_FaultIdempotent ==
    /\ [](\A r \in Regions, i \in Indices : Cardinality(installed[r][i]) <= 1)
    /\ [](\A t \in Threads : (FaultDone(t) /\ th[t].hit) => th[t].ret = VM_FAULT_NOPAGE)
    /\ [][\A t \in Threads :
            ((AtResolvedLookup(t) \/ (th[t].op = "fault" /\ th[t].hit))
                 /\ th'[t] # th[t])
               => /\ page_array' = page_array
                  /\ free_pages' = free_pages
                  /\ installed' = installed
                  /\ th'[t].epc_page = NULL
                  /\ th'[t].pc \in {"F_unlock", "ret", "idle"}]_vars

\* A fault on a resolved index has returned while the page installed by the
\* first fault is still the only one of its index.
C3_Witness ==
    \E t \in Threads :
        /\ FaultDone(t) /\ th[t].hit
        /\ \E i \in Indices : /\ page_array[th[t].epc][i] # NULL
                               /\ installed[th[t].epc][i] = {page_array[th[t].epc][i]}

\* C9 as stated: when installation reports retry and the host permits
\* retry, the fault callback returns "retry", with the region lock not held.
C9_Original ==
    \A t \in Threads :
        (FaultDone(t) /\ th[t].insert_res = VM_FAULT_RETRY
                      /\ "FAULT_FLAG_ALLOW_RETRY" \in th[t].flags)
            => (th[t].ret = VM_FAULT_RETRY /\ lock[th[t].epc] # t)

\* C9 amended: when installation reports retry the fault callback returns
\* "fatal" (or "resolved" when a signal is pending), whether or not the host
\* permits retry; it returns "retry" exactly when the allocation reported
\* busy, the host permits retry and no signal is pending, and then with the
\* mmap lock dropped; it always returns with the region lock not held.
C9_RetryOnlyOnBusyAllocation ==
    \A t \in Threads :
        FaultDone(t) =>
            /\ lock[th[t].epc] # t
            /\ th[t].insert_res = VM_FAULT_RETRY
                  => th[t].ret = (IF th[t].sig THEN VM_FAULT_NOPAGE ELSE VM_FAULT_SIGBUS)
            /\ th[t].ret = VM_FAULT_RETRY
                  <=> (/\ th[t].err = EBUSY
                       /\ "FAULT_FLAG_ALLOW_RETRY" \in th[t].flags
                       /\ ~th[t].sig)
            /\ th[t].ret = VM_FAULT_RETRY => ~th[t].mmap_locked

\* Installation reported retry to a fault the host allowed to retry, and the
\* callback has returned "fatal".
C9_Witness ==
    \E t \in Threads :
        /\ FaultDone(t) /\ th[t].insert_res = VM_FAULT_RETRY
        /\ "FAULT_FLAG_ALLOW_RETRY" \in th[t].flags /\ ~th[t].sig
        /\ th[t].ret = VM_FAULT_SIGBUS

\* A bind request that has returned to the host.
MmapDone(t) == th[t].op = "mmap" /\ th[t].pc = "ret"

\* C10: a bind returns 0 if and only if the mapping is shared and the
\* caller's address space is the region's owner; otherwise it returns
\* -EINVAL and the mapping has no handlers, none of the flags bind sets and
\* no region tag; every bound mapping belongs to its region's owner.
C10_BindIffSharedAndOwner ==
    /\ \A t \in Threads :
          MmapDone(t) =>
            LET vma == th[t].newvma
                r   == th[t].epc
            IN /\ th[t].ret = 0
                    <=> ("VM_SHARED" \in vma.vm_flags /\ vma.vm_mm = epc_mm[r])
               /\ th[t].ret # 0
                    => /\ th[t].ret = EINVAL
                       /\ ~vma.vm_ops
                       /\ vma.vm_private_data = 0
                       /\ vma.vm_flags \cap {"VM_PFNMAP", "VM_IO", "VM_DONTDUMP"} = {}
                       /\ \A v \in Vmas : vmas[v] # vma
               /\ th[t].ret = 0
                    => /\ vma.vm_ops
                       /\ vma.vm_private_data = r
                       /\ {"VM_PFNMAP", "VM_IO", "VM_DONTDUMP"} \subseteq vma.vm_flags
    /\ \A v \in Vmas :
          vmas[v].state = "bound"
            => /\ vmas[v].vm_private_data \in Regions
               /\ vmas[v].vm_mm = epc_mm[vmas[v].vm_private_data]
               /\ "VM_SHARED" \in vmas[v].vm_flags

\* A shared mapping requested from an address space that does not own the
\* region has been rejected while another mapping is bound.
C10_Witness ==
    \E t \in Threads :
        /\ MmapDone(t) /\ th[t].ret = EINVAL
        /\ "VM_SHARED" \in th[t].newvma.vm_flags
        /\ th[t].newvma.vm_mm # epc_mm[th[t].epc]
        /\ \E v \in Vmas : vmas[v].state = "bound"

\* A debug access that has returned to the debugger.
AccessDone(t) == th[t].op = "access" /\ th[t].pc = "ret"
\* The indices the range [start, start + len) of an access lies on.
RangeIndices(t) ==
    {sgx_virt_epc_calc_index(vmas[th[t].vma], th[t].start + j) :
        j \in 0..(th[t].len - 1)}

\* C4: an access, read or write, whose range reaches an index without a
\* table entry returns -EIO, the region lock given back; and no step of any
\* access takes a page from the page source or changes any region's table.
C4_AccessNeverAllocates ==
    /\ [](\A t \in Threads :
            AccessDone(t) =>
              /\ (\E i \in RangeIndices(t) : page_array[th[t].epc][i] = NULL)
                    => th[t].ret = EIO
              /\ th[t].miss => (th[t].ret = EIO /\ lock[th[t].epc] # t))
    /\ [][\A t \in Threads :
            (th[t].op = "access" /\ th'[t] # th[t])
               => /\ page_array' = page_array
                  /\ free_pages' = free_pages
                  /\ installed' = installed]_vars

\* An access met a missing entry after it had processed a chunk on a page
\* that is present, and has returned -EIO with pages still free.
C4_Witness ==
    \E t \in Threads :
        /\ AccessDone(t) /\ th[t].miss /\ th[t].fail_i > 0
        /\ th[t].ret = EIO
        /\ free_pages # {}

\* An access ended by a failure: a missing entry or a failed EDBGRD/EDBGWR.
AccessFailed(t) == th[t].miss \/ th[t].insn_fail

\* C5 as stated: a failure on a chunk other than the first returns the
\* number of bytes processed before that chunk, smaller than len; a failure
\* on the first chunk returns -EIO; with no failure len is returned.
C5_Original ==
    \A t \in Threads :
        AccessDone(t) =>
            /\ (AccessFailed(t) /\ th[t].fail_i > 0)
                  => (th[t].ret = th[t].fail_i /\ th[t].ret < th[t].len)
            /\ (AccessFailed(t) /\ th[t].fail_i = 0) => th[t].ret = EIO
            /\ ~AccessFailed(t) => th[t].ret = th[t].len

\* C5 amended: a failure on any chunk, the first or a later one, returns
\* -EIO and never a partial count; with no failure len is returned.
C5_AccessReturn ==
    \A t \in Threads :
        AccessDone(t) =>
            /\ AccessFailed(t) => th[t].ret = EIO
            /\ ~AccessFailed(t) => th[t].ret = th[t].len
            /\ th[t].ret \in {EIO, th[t].len}

\* A debug instruction failed on a chunk after the first and the access has
\* returned -EIO.
C5_Witness ==
    \E t \in Threads :
        /\ AccessDone(t) /\ th[t].insn_fail /\ th[t].fail_i > 0
        /\ th[t].ret = EIO

\* Thread t is about to process a chunk, and does so without a failure.
ChunkSucceeds(t) ==
    /\ th[t].op = "access" /\ th[t].pc = "A_chunk"
    /\ th'[t].pc = "A_unlock" /\ ~th'[t].insn_fail
\* The place of byte j of the chunk thread t is at: in the buffer, in the word.
BufPos(t, j) == th[t].i + j + 1
WordPos(t, j) == ChunkOffset(th[t].addr) + j + 1

\* C6: a successful write of cnt < 8 bytes at offset (offset + cnt <= 8)
\* leaves the bytes of the word outside [offset, offset + cnt), and every
\* other word, as they were and sets the bytes inside to the buffer's bytes;
\* a successful read of the range puts exactly those bytes of the word into
\* the buffer and changes neither the rest of the buffer nor the memory.
C6_PartialWriteRMW ==
    [][\A t \in Threads :
         ChunkSucceeds(t) =>
           LET offset == th[t].addr % WORD
               cnt    == th'[t].cnt
               pg     == th[t].epc_page
               w      == ((th[t].addr - offset) % PAGE_SIZE) \div WORD
           IN (cnt < WORD) =>
                /\ offset + cnt <= WORD
                /\ th[t].write =>
                     /\ \A k \in 1..WORD :
                           mem'[pg][w][k] =
                              IF k - 1 >= offset /\ k - 1 < offset + cnt
                              THEN th[t].buf[th[t].i + (k - 1 - offset) + 1]
                              ELSE mem[pg][w][k]
                     /\ \A q \in Pages, v \in 0..(WordsPerPage - 1) :
                           <<q, v>> # <<pg, w>> => mem'[q][v] = mem[q][v]
                     /\ th'[t].buf = th[t].buf
                /\ ~th[t].write =>
                     /\ \A j \in 0..(cnt - 1) :
                           th'[t].buf[BufPos(t, j)] = mem[pg][w][WordPos(t, j)]
                     /\ \A k \in 1..Len(th[t].buf) :
                           (k < BufPos(t, 0) \/ k > BufPos(t, cnt - 1))
                              => th'[t].buf[k] = th[t].buf[k]
                     /\ Len(th'[t].buf) = Len(th[t].buf)
                     /\ mem' = mem]_vars

\* A write of less than a word into the middle of a word of distinct bytes
\* has succeeded: bytes on both sides are kept and the bytes written differ
\* from what the word held.
C6_Witness ==
    \E t \in Threads :
        /\ th[t].op = "access" /\ th[t].pc = "A_unlock" /\ ~th[t].insn_fail
        /\ th[t].write /\ th[t].cnt < WORD - 1
        /\ th[t].addr % WORD > 0
        /\ \E p \in Pages, w \in 0..(WordsPerPage - 1) :
              /\ mem[p][w][1] = PatternMem[p][w][1]
              /\ mem[p][w][WORD] = PatternMem[p][w][WORD]
              /\ mem[p][w][(th[t].addr % WORD) + 1] = 255

\* The value of a word as a little-endian integer, in four 16-bit limbs,
\* least significant limb first.
Limbs(word) ==
    <<word[1] + 256 * word[2], word[3] + 256 * word[4],
      word[5] + 256 * word[6], word[7] + 256 * word[8]>>
\* 0x0000000000FF0000 and 0x00000000FF000000
Hex0000000000FF0000 == <<0, 255, 0, 0>>
Hex00000000FF000000 == <<0, 65280, 0, 0>>
\* Thread t writes the one byte 0xFF at offset 3 of a word that holds zero.
WritesFFAtOffset3(t) ==
    /\ ChunkSucceeds(t)
    /\ th[t].write /\ th[t].len = 1 /\ th[t].buf = <<255>>
    /\ th[t].addr % WORD = 3
    /\ mem[th[t].epc_page][WordNo(th[t].addr)] = ZeroWord

\* C7 as stated: the 1-byte write of 0xFF at offset 3 of a zero word yields
\* the word value 0x0000000000FF0000.
C7_Original ==
    [][\A t \in Threads :
         WritesFFAtOffset3(t)
           => Limbs(mem'[th[t].epc_page][WordNo(th[t].addr)]) = Hex0000000000FF0000]_vars

\* C7 amended: the 1-byte write of 0xFF at offset 3 of a zero word yields
\* the word value 0x00000000FF000000: byte 3 is 0xFF, the others are zero.
C7_ByteThreeSet ==
    [][\A t \in Threads :
         WritesFFAtOffset3(t)
           => LET word == mem'[th[t].epc_page][WordNo(th[t].addr)]
              IN /\ Limbs(word) = Hex00000000FF000000
                 /\ word = <<0, 0, 0, 255, 0, 0, 0, 0>>]_vars

\* The 1-byte write of 0xFF at offset 3 of a zero word has been done.
C7_Witness ==
    \E t \in Threads :
        /\ th[t].op = "access" /\ th[t].pc = "A_unlock" /\ ~th[t].insn_fail
        /\ th[t].write /\ th[t].len = 1 /\ th[t].buf = <<255>>
        /\ th[t].addr % WORD = 3
        /\ \E p \in Pages, w \in 0..(WordsPerPage - 1) :
              /\ mem[p][w][4] = 255
              /\ \A k \in (1..WORD) \ {4} : mem[p][w][k] = 0

\* The fault threads that hold page p in epc_page while it is in no table:
\* allocated and not yet stored, or erased and not yet freed.
FaultHolders(p) ==
    {t \in Threads : /\ th[t].op = "fault" /\ th[t].epc_page = p
                      /\ th[t].pc \in {"F_store", "F_err_free"}}
\* Thread t is at the end of the locked section of a fault that failed.
AtFailedUnlock(t) ==
    th[t].op = "fault" /\ th[t].pc = "F_unlock" /\ th[t].ret # 0

\* C11: when a fault fails (allocation, store or installation), then at the
\* end of its locked section the faulting index has no entry, as when the
\* fault began, and the fault holds no page; a fault changes no slot of any
\* table but its own; and every page is at all times in exactly one of:
\* the page source, one table slot, the hands of one fault in flight - so
\* the page a failed fault obtained is back in the page source.
C11_FailedFaultNoTrace ==
    /\ [](\A t \in Threads :
            AtFailedUnlock(t) =>
               /\ page_array[th[t].epc][th[t].index] = NULL
               /\ th[t].epc_page = NULL)
    /\ [](\A t \in Threads :
            (FaultDone(t) /\ th[t].err # 0) => th[t].epc_page = NULL)
    /\ [](\A p \in Pages :
            (IF p \in free_pages THEN 1 ELSE 0) + Cardinality(OpenSlotsOf(p))
               + Cardinality(FaultHolders(p)) = 1)
    /\ [][\A r \in Regions, i \in Indices :
            page_array'[r][i] # page_array[r][i]
               => \E t \in Threads :
                     /\ th[t].op = "fault" /\ th'[t] # th[t]
                     /\ th[t].epc = r /\ th[t].index = i
                     /\ lock[r] = t]_vars

\* A fault whose installation failed has returned "fatal" with every page
\* back in the page source.
C11_Witness ==
    \E t \in Threads :
        /\ FaultDone(t) /\ th[t].err = EFAULT /\ th[t].ret = VM_FAULT_SIGBUS
        /\ free_pages = Pages

\* Where a release is: in passes 1-2 (lines 199-220), in pass 3 (228-242).
InPass12(t) ==
    th[t].op = "release" /\ th[t].pc \in {"R1_free", "R1_erase", "R2_free", "R2_erase"}
InPass3(t) ==
    th[t].op = "release" /\ th[t].pc \in {"R3_del", "R3_free", "R3_splice", "R3_unlock"}

\* C12 as stated: passes 1 and 2 of a release run with the region's own
\* lock held by the release, and pass 3 with the global registry lock held.
C12_Original ==
    \A t \in Threads :
        /\ InPass12(t) => lock[th[t].epc] = t
        /\ InPass3(t) => virt_epc_lock = t

\* C12 amended: passes 1 and 2 of a release run without the region's lock,
\* which nobody holds then; pass 3 runs with the global registry lock held
\* by the release, and only a release in pass 3 holds that lock.
C12_ReleaseLocking ==
    /\ \A t \in Threads :
          /\ InPass12(t) => lock[th[t].epc] = 0
          /\ InPass3(t) => virt_epc_lock = t
    /\ virt_epc_lock # 0 => InPass3(virt_epc_lock)

\* One release is in pass 3 with the global lock while another is in
\* passes 1-2 of its own region.
C12_Witness ==
    \E t \in Threads, u \in Threads :
        /\ InPass3(t) /\ virt_epc_lock = t
        /\ InPass12(u) /\ th[u].epc # th[t].epc
        /\ th[u].pc \in {"R1_erase", "R2_erase"}

\* The places of page p on the local pending lists of releases.
PendingLinksOf(p) ==
    {x \in Threads \X (1..NumPages) :
        /\ th[x[1]].op = "release" /\ x[2] <= Len(th[x[1]].secs_pages)
        /\ th[x[1]].secs_pages[x[2]] = p}
\* The releases that have unlinked p from the registry and not yet freed it
\* or put it on their pending list.
RegistryHolders(p) ==
    {t \in Threads : th[t].op = "release" /\ th[t].pc = "R3_free" /\ th[t].epc_page = p}
\* A slot whose entry a release has dealt with and is about to erase.
BeingErased(s) ==
    \E t \in Threads :
        /\ th[t].op = "release" /\ th[t].pc \in {"R1_erase", "R2_erase"}
        /\ th[t].epc = s[1] /\ th[t].index = s[2]

\* C13 as stated: in every reachable state every page has exactly one owner
\* among a region's table, a release's pending list, the registry, free.
C13_Original ==
    \A p \in Pages :
        (IF p \in free_pages THEN 1 ELSE 0) + Cardinality(OpenSlotsOf(p))
           + Cardinality(PendingLinksOf(p)) + Cardinality(RegistryLinksOf(p)) = 1

\* C13 amended: in every reachable state every page has exactly one owner
\* among: free, a table slot that no release is about to erase, a release's
\* pending list, a release that has just unlinked it from the registry, the
\* registry, a fault that has allocated and not stored it or has erased and
\* not freed it.  (A release frees or defers a page before it erases the
\* entry, so until the erase the page is also in the releasing region's
\* table, and may meanwhile be allocated to another region.)
C13_OneOwner ==
    \A p \in Pages :
        (IF p \in free_pages THEN 1 ELSE 0)
           + Cardinality({s \in OpenSlotsOf(p) : ~BeingErased(s)})
           + Cardinality(PendingLinksOf(p)) + Cardinality(RegistryHolders(p))
           + Cardinality(RegistryLinksOf(p)) + Cardinality(FaultHolders(p)) = 1

\* A page freed by the release of region 1 has been installed in region 2
\* while the release has not yet erased it from the table of region 1.
C13_Witness ==
    \E p \in Pages, i \in Indices, j \in Indices :
        /\ page_array[1][i] = p /\ BeingErased(<<1, i>>)
        /\ page_array[2][j] = p /\ p \in installed[2][j]

\* The pages linked in the registry.
RegistryPages ==
    {virt_epc_zombie_pages[k] : k \in 1..Len(virt_epc_zombie_pages)}

\* C14: the registry changes only in a step of the release that holds the
\* global lock, and at most one release is in pass 3; when that release is
\* about to drop the lock, every page it unlinked is either free or back in
\* the registry (not both), its pending list has been spliced onto the
\* registry, and every page that failed in its passes 2 and 3 is in the
\* registry.
C14_RegistryRetryAtomic ==
    /\ [](Cardinality({t \in Threads : InPass3(t)}) <= 1)
    /\ [](\A t \in Threads :
            (th[t].op = "release" /\ th[t].pc = "R3_unlock") =>
               LET r == th[t].epc
               IN /\ virt_epc_lock = t
                  /\ th[t].secs_pages = <<>>
                  /\ \A p \in rel_taken[r] :
                        (p \in free_pages) # (p \in RegistryPages)
                  /\ rel_zombie[r] \subseteq RegistryPages
                  /\ \A p \in rel_start[r] \cup rel_taken[r] :
                        p \in rel_freed[r] \cup rel_zombie[r])
    /\ [][virt_epc_zombie_pages' # virt_epc_zombie_pages
            => /\ virt_epc_lock # 0 /\ virt_epc_lock' = virt_epc_lock
               /\ InPass3(virt_epc_lock)
               /\ th'[virt_epc_lock] # th[virt_epc_lock]]_vars

\* A release is about to drop the global lock after its walk unlinked a
\* page that failed again and is back in the registry.
C14_Witness ==
    \E t \in Threads :
        /\ th[t].op = "release" /\ th[t].pc = "R3_unlock"
        /\ \E p \in rel_taken[th[t].epc] :
              p \in RegistryPages /\ p \in rel_zombie[th[t].epc]

\* A release of region r that has finished pass 2.
PastPass2(t, r) ==
    /\ th[t].op = "release" /\ th[t].epc = r
    /\ th[t].pc \in {"R3_lock", "R3_del", "R3_free", "R3_splice", "R3_unlock",
                      "R_kfree", "ret"}

\* C15: region 1 being self-contained, its release has at the end of pass 2
\* freed every page that was in its table, the table is empty and the
\* pending list is empty; the pages it splices onto the registry are only
\* registry entries its own pass 3 unlinked, never a page of region 1.
C15_TwoPassesSuffice ==
    \A t \in Threads :
        /\ PastPass2(t, 1) =>
              /\ \A i \in Indices : page_array[1][i] = NULL
              /\ rel_start[1] \subseteq rel_freed[1]
              /\ rel_zombie[1] \cap rel_start[1] = {}
              /\ rel_zombie[1] \subseteq rel_taken[1]
        /\ (PastPass2(t, 1) /\ th[t].pc = "R3_lock") => th[t].secs_pages = <<>>

\* The release of region 1 is in pass 2 with a page q still in the table -
\* a SECS page that failed in pass 1 - whose children, at higher indices,
\* pass 1 has freed since, so that pass 2 can free q.
C15_Witness ==
    \E t \in Threads, q \in Pages, c \in Pages :
        /\ th[t].op = "release" /\ th[t].epc = 1 /\ th[t].pc = "R2_free"
        /\ q \in TablePages(1) /\ ~HasChild(q)
        /\ q < c /\ c \in rel_freed[1]

\* Every region that was opened has been released and freed.
AllReleased == \A r \in Regions : epc_state[r] = "freed"

\* C16 as stated: once every region has completed its release, under every
\* interleaving of the releases, the registry holds no page whose children
\* have all been removed; it is empty.
C16_Original ==
    AllReleased =>
        /\ \A p \in RegistryPages : HasChild(p)
        /\ virt_epc_zombie_pages = <<>>

\* Thread t is inside the locked section of a fault (76-78) or of a chunk
\* of a debug access (110-142).
InLockedSection(t) ==
    \/ th[t].op = "fault" /\ th[t].pc \in {"F_alloc", "F_store", "F_insert",
                                              "F_err_delete", "F_err_free", "F_unlock"}
    \/ th[t].op = "access" /\ th[t].pc \in {"A_load", "A_chunk", "A_unlock"}

\* C17: for each region at most one fault or access chunk is inside its
\* locked section, and it holds the region's lock; a table entry changes
\* only in a step of the thread that holds the lock of its region.
C17_TableMutex ==
    /\ [](\A r \in Regions :
            Cardinality({t \in Threads : InLockedSection(t) /\ th[t].epc = r}) <= 1)
    /\ [](\A t \in Threads : InLockedSection(t) <=> (th[t].epc # 0 /\ lock[th[t].epc] = t))
    /\ [][\A r \in Regions :
            page_array'[r] # page_array[r]
               => /\ lock[r] # 0 /\ th'[lock[r]] # th[lock[r]]
                  /\ InLockedSection(lock[r])]_vars

\* A fault and a debug access are inside the locked sections of two
\* different regions at the same time.
C17_Witness ==
    \E t \in Threads, u \in Threads :
        /\ InLockedSection(t) /\ InLockedSection(u)
        /\ th[t].epc # th[u].epc
        /\ th[t].op = "fault" /\ th[u].op = "access"

\* Thread t is inside a fault or a debug access that has not returned.
Running(t) == th[t].op \in {"fault", "access"} /\ th[t].pc # "ret"

\* C18: a fault or a debug access that has returned, by whichever exit,
\* does not hold its region's lock; and under fair scheduling every fault
\* and every debug access that was invoked eventually returns.
C18_LockReleasedAndProgress ==
    /\ [](\A t \in Threads :
            (FaultDone(t) \/ AccessDone(t)) => lock[th[t].epc] # t)
    /\ \A t \in Threads : Running(t) ~> (th[t].pc = "ret")

\* A debug access waits in down_write for the lock of a region that a
\* fault on the same region holds.
C18_Witness ==
    \E t \in Threads, u \in Threads :
        /\ th[t].op = "access" /\ th[t].pc = "A_lock"
        /\ th[u].op = "fault" /\ InLockedSection(u)
        /\ th[u].epc = th[t].epc /\ lock[th[t].epc] = u

\* The index of the page that holds byte a of the mapping of thread t.
PageIndexOf(t, a) ==
    vmas[th[t].vma].vm_pgoff + ((a - VM_START) \div PAGE_SIZE)
\* Thread t is inside an access, at pc.
AccessAt(t, pc) == th[t].op = "access" /\ th[t].pc = pc

\* C19: the chunks of an access are consecutive and do not overlap - the
\* first starts at start, each next one where the last ended - each has at
\* least one byte, lies inside one aligned word and inside the range, and
\* ends at a word boundary or at the end of the range; an access without
\* failure ends at start + len; and the index used for a chunk's lookup is
\* the index of the page that holds the chunk.
C19_Chunking ==
    /\ [](\A t \in Threads :
            (AccessAt(t, "A_lock") \/ AccessAt(t, "A_load") \/ AccessAt(t, "A_chunk"))
               => /\ th[t].addr = th[t].start + th[t].i
                  /\ th[t].i < th[t].len
                  /\ th[t].index = PageIndexOf(t, th[t].addr))
    /\ [](\A t \in Threads :
            AccessAt(t, "A_unlock") =>
               LET first == th[t].start + th[t].i
                   last  == first + th[t].cnt - 1
               IN /\ th[t].cnt >= 1
                  /\ th[t].i + th[t].cnt <= th[t].len
                  /\ first \div WORD = last \div WORD
                  /\ first \div PAGE_SIZE = last \div PAGE_SIZE
                  /\ th[t].index = PageIndexOf(t, last)
                  /\ (last + 1) % WORD = 0 \/ th[t].i + th[t].cnt = th[t].len)
    /\ [](\A t \in Threads :
            (AccessDone(t) /\ ~AccessFailed(t)) => th[t].i = th[t].len)
    /\ [][\A t \in Threads :
            /\ (th[t].op = "idle" /\ th'[t].op = "access") => th'[t].i = 0
            /\ (th[t].op = "access" /\ th'[t].op = "access" /\ th'[t].i # th[t].i)
                  => (th[t].pc = "A_unlock" /\ th'[t].i = th[t].i + th[t].cnt)]_vars

\* An access of several chunks that crossed a page boundary has returned
\* without failure.
C19_Witness ==
    \E t \in Threads :
        /\ AccessDone(t) /\ ~AccessFailed(t)
        /\ th[t].len > WORD
        /\ th[t].start % WORD # 0
        /\ th[t].start \div PAGE_SIZE # (th[t].start + th[t].len - 1) \div PAGE_SIZE

\* The release of region r has been called and has not reached kfree: the
\* region still holds pages or is reclaiming them.
Reclaiming(r) ==
    \E t \in Threads :
        /\ th[t].op = "release" /\ th[t].epc = r
        /\ th[t].pc \notin {"R_kfree", "ret"}
\* The release of region r has been called and has not yet done its mmdrop.
BeforeMmdrop(r) ==
    \E t \in Threads :
        th[t].op = "release" /\ th[t].epc = r /\ th[t].pc = "R_mmdrop"
\* The regions of address space m that satisfy P.
RegionsOf(m, P(_)) == {r \in Regions : epc_mm[r] = m /\ P(r)}
IsOpen(r) == epc_state[r] = "open"
OpenOrReclaiming(r) == IsOpen(r) \/ Reclaiming(r)
OpenOrBeforeMmdrop(r) == IsOpen(r) \/ BeforeMmdrop(r)

\* C20 as stated: the reference open took is dropped only after the three
\* passes, so an address space has a reference for each of its regions
\* that is open or still reclaiming pages.
C20_Original ==
    \A m \in MMs : mm_count[m] >= Cardinality(RegionsOf(m, OpenOrReclaiming))

\* C20 amended: open takes one reference and release drops exactly that
\* one, as its first step, before the three passes and the kfree: an
\* address space has exactly one reference for each of its regions that is
\* open or whose release has been called and has not yet done the mmdrop.
C20_MmReference ==
    \A m \in MMs : mm_count[m] = Cardinality(RegionsOf(m, OpenOrBeforeMmdrop))

\* A release is reclaiming pages in pass 2 or later, its reference already
\* dropped, while another region of the same address space keeps its own.
C20_Witness ==
    \E t \in Threads, q \in Regions :
        /\ th[t].op = "release" /\ th[t].pc \in {"R2_free", "R2_erase", "R3_lock"}
        /\ rel_freed[th[t].epc] # {}
        /\ q # th[t].epc /\ IsOpen(q) /\ epc_mm[q] = epc_mm[th[t].epc]
        /\ mm_count[epc_mm[q]] = 1
=============================================================================
